---- MODULE Spec2Model ----
(***************************************************************************)
(* Model of src/target/parser.rs of cc-rs: the resolution of TargetInfo    *)
(* from TARGET and the CARGO_CFG_TARGET_* variables                        *)
(* (TargetInfoParserInner::from_cargo_environment_variables), the          *)
(* relocation-model heuristic (guess_relocation_model_static) and the      *)
(* once-only cache around the resolution (TargetInfoParser).               *)
(*                                                                         *)
(* Strings the code takes apart (TARGET, full_arch) are sequences of       *)
(* one-character strings; strings the code only stores and compares        *)
(* (arch, vendor, os, env, abi) are TLA+ strings.  An Option is a sequence *)
(* of length 0 or 1.                                                       *)
(***************************************************************************)
EXTENDS Naturals, Sequences, FiniteSets

VARIABLES
    environ,     \* the process environment: variable name -> EnvValue
    once,        \* OnceLock: "incomplete" | "running" | "complete"
    slot,        \* OnceLock's value: <<>> until written, then <<outcome>>
    pc,          \* each thread's position in parse_from_cargo_environment_variables
    ret,         \* each thread's last return value: <<>> or <<outcome>>
    executions,  \* history: how often the body of from_cargo_environment_variables ran
    calls,       \* history: the heuristics the body invoked, with their arguments
    first,       \* history: what the first completed call returned
    stale,       \* history: a later call returned while a fresh resolution would differ
    envWrites,   \* history: number of changes made to the environment
    gin,         \* arguments of a direct use of guess_relocation_model_static
    gout         \* its result: <<>> or <<BOOLEAN>>

vars == <<environ, once, slot, pc, ret, executions, calls, first, stale,
          envWrites, gin, gout>>

(***************************************************************************)
(* Bounds                                                                  *)
(***************************************************************************)
NumThreads == 2
MaxEnvWrites == 1

Threads == 1..NumThreads

(***************************************************************************)
(* Strings                                                                 *)
(***************************************************************************)
full_arch_x86_64 == <<"x", "8", "6", "_", "6", "4">>
full_arch_asmjs == <<"a", "s", "m", "j", "s">>
full_arch_mycpu == <<"m", "y", "c", "p", "u">>
target_unknownarch == <<"u", "n", "k", "n", "o", "w", "n", "a", "r", "c", "h">>
target_x86_64_unknown_linux_gnu ==
    <<"x", "8", "6", "_", "6", "4", "-", "u", "n", "k", "n", "o", "w", "n",
      "-", "l", "i", "n", "u", "x", "-", "g", "n", "u">>
target_x86_64_custom ==
    <<"x", "8", "6", "_", "6", "4", "-", "c", "u", "s", "t", "o", "m">>
target_asmjs_custom == <<"a", "s", "m", "j", "s", "-", "c", "u", "s", "t", "o", "m">>
target_mycpu_custom == <<"m", "y", "c", "p", "u", "-", "c", "u", "s", "t", "o", "m">>
target_no_arch == <<"-", "c", "u", "s", "t", "o", "m">>
target_empty == <<>>

(***************************************************************************)
(* The environment and std::env::var                                       *)
(***************************************************************************)
VarNames == {"TARGET", "CARGO_CFG_TARGET_ARCH", "CARGO_CFG_TARGET_VENDOR",
             "CARGO_CFG_TARGET_OS", "CARGO_CFG_TARGET_ENV", "CARGO_CFG_TARGET_ABI"}

\* A variable of the environment: unset, set to bytes that are not valid
\* Unicode, or set to a string.
Unset == [st |-> "NotPresent", v |-> <<>>]
NotUnicode == [st |-> "NotUnicode", v |-> <<>>]
Set(s) == [st |-> "Ok", v |-> <<s>>]

\* std::env::var(name): Ok(string), Err(VarError::NotPresent) or
\* Err(VarError::NotUnicode(..)).
env_var(e, name) ==
    IF e[name].st = "Ok"
    THEN [ok |-> TRUE, v |-> e[name].v[1], err |-> ""]
    ELSE [ok |-> FALSE, v |-> <<>>,
          err |-> IF e[name].st = "NotPresent"
                  THEN "environment variable not found"
                  ELSE "environment variable was not valid unicode"]

(***************************************************************************)
(* Error and TargetInfoParserInner values                                  *)
(***************************************************************************)
\* Error::new(kind, format!(fmt, ..)): the message is the format string with
\* its arguments ({target_triple}, {name}, {err}; unused ones empty).
Error(kind, fmt, target_triple, name, err) ==
    [kind |-> kind, fmt |-> fmt, target |-> target_triple, name |-> name, err |-> err]

NoError == Error("", "", <<>>, "", "")

NoTriple == [text |-> <<>>, guess_of |-> <<>>]

NoInfo == [full_arch |-> <<>>, arch |-> "", vendor |-> "", os |-> "", env |-> "",
           abi |-> "", unversioned_llvm_target |-> NoTriple,
           relocation_model_static |-> FALSE]

\* Result<TargetInfoParserInner, Error>
Ok(info) == [ok |-> TRUE, val |-> info, err |-> NoError]
Err(error) == [ok |-> FALSE, val |-> NoInfo, err |-> error]

(***************************************************************************)
(* The fallback table and the LLVM-triple heuristic                        *)
(***************************************************************************)
\* generated::LIST: (target triple, TargetInfo) pairs.
LIST ==
    { <<target_x86_64_unknown_linux_gnu,
        [full_arch |-> full_arch_x86_64, arch |-> "x86_64", vendor |-> "unknown",
         os |-> "linux", env |-> "gnu", abi |-> "",
         unversioned_llvm_target |->
             [text |-> target_x86_64_unknown_linux_gnu, guess_of |-> <<>>],
         relocation_model_static |-> FALSE]>> }

\* TargetInfo::from_str(target_triple).ok(): an exact lookup in LIST.
from_str(target_triple) ==
    IF \E p \in LIST : p[1] = target_triple
    THEN <<(CHOOSE p \in LIST : p[1] = target_triple)[2]>>
    ELSE <<>>

\* llvm::guess_llvm_target_triple: an opaque function of its five arguments.
guess_llvm_target_triple(full_arch, vendor, os, env, abi) ==
    [text |-> <<>>, guess_of |-> <<full_arch, vendor, os, env, abi>>]

(***************************************************************************)
(* guess_relocation_model_static                                           *)
(***************************************************************************)
guess_relocation_model_static_os_first(full_arch, arch, vendor, os, env) ==
    IF os \in {"none", "vita", "psp", "psx", "solid_asp3", "rtems", "nuttx",
               "xous", "l4re", "zkvm"} THEN TRUE
    ELSE IF arch \in {"bpf", "hexagon"} THEN FALSE
    ELSE IF vendor = "unikraft" THEN TRUE
    ELSE IF vendor = "fortanix" THEN FALSE
    ELSE IF env = "newlib" THEN TRUE
    ELSE IF full_arch = full_arch_asmjs \/ os \in {"unknown", "wasi"}
         THEN (IF env = "p2" THEN FALSE ELSE TRUE)
    ELSE FALSE

guess_relocation_model_static_no_bare_metal(full_arch, arch, vendor, os, env) ==
    IF arch \in {"bpf", "hexagon"} THEN FALSE
    ELSE IF vendor = "unikraft" THEN TRUE
    ELSE IF vendor = "fortanix" THEN FALSE
    ELSE IF env = "newlib" THEN TRUE
    ELSE IF full_arch = full_arch_asmjs \/ os \in {"unknown", "wasi"}
         THEN (IF env = "p2" THEN FALSE ELSE TRUE)
    ELSE FALSE

guess_relocation_model_static(full_arch, arch, vendor, os, env) ==
    IF arch \in {"bpf", "hexagon"} THEN FALSE
    ELSE IF vendor = "unikraft" THEN TRUE
    ELSE IF vendor = "fortanix" THEN FALSE
    ELSE IF full_arch = full_arch_x86_64 /\ vendor = "unknown" /\ os = "none"
            /\ env = "" THEN FALSE
    ELSE IF os \in {"none", "vita", "psp", "psx", "solid_asp3", "rtems", "nuttx",
                    "xous", "l4re", "zkvm"} THEN TRUE
    ELSE IF env = "newlib" THEN TRUE
    ELSE IF full_arch = full_arch_asmjs \/ os \in {"unknown", "wasi"}
         THEN (IF env = "p2" THEN FALSE ELSE TRUE)
    ELSE FALSE

(***************************************************************************)
(* TargetInfoParserInner::from_cargo_environment_variables                 *)
(***************************************************************************)
split_once_lenient(s) ==
    IF \E i \in 1..Len(s) : s[i] = "-"
    THEN LET i == CHOOSE k \in 1..Len(s) :
                      s[k] = "-" /\ \A j \in 1..(k - 1) : s[j] # "-"
         IN  <<[before |-> SubSeq(s, 1, i - 1), after |-> SubSeq(s, i + 1, Len(s))]>>
    ELSE <<[before |-> s, after |-> <<>>]>>

\* str::split_once('-'): the parts before and after the first '-', if any.
split_once(s) ==
    IF \E i \in 1..Len(s) : s[i] = "-"
    THEN LET i == CHOOSE k \in 1..Len(s) :
                      s[k] = "-" /\ \A j \in 1..(k - 1) : s[j] # "-"
         IN  <<[before |-> SubSeq(s, 1, i - 1), after |-> SubSeq(s, i + 1, Len(s))]>>
    ELSE <<>>

MissingFieldError(target_triple, name, err) ==
    Error("EnvVarNotFound",
          "did not find fallback information for target {target_triple}, and failed reading {name}: {err}",
          target_triple, name, err)

cargo_env_prefers_fallback(e, target_triple, name, fallback) ==
    LET var == env_var(e, name)
    IN  IF Len(fallback) = 1 THEN [ok |-> TRUE, v |-> fallback[1], err |-> NoError]
        ELSE IF var.ok THEN [ok |-> TRUE, v |-> var.v, err |-> NoError]
        ELSE [ok |-> FALSE, v |-> "",
              err |-> MissingFieldError(target_triple, name, var.err)]

cargo_env_defaults_empty(e, target_triple, name, fallback) ==
    LET var == env_var(e, name)
    IN  IF var.ok THEN [ok |-> TRUE, v |-> var.v, err |-> NoError]
        ELSE IF Len(fallback) = 1
             THEN [ok |-> TRUE, v |-> fallback[1], err |-> NoError]
        ELSE [ok |-> TRUE, v |-> "", err |-> NoError]

\* The closure cargo_env: the variable's value, else the fallback, else an error.
cargo_env(e, target_triple, name, fallback) ==
    LET var == env_var(e, name)
    IN  IF var.ok THEN [ok |-> TRUE, v |-> var.v, err |-> NoError]
        ELSE IF Len(fallback) = 1
             THEN [ok |-> TRUE, v |-> fallback[1], err |-> NoError]
        ELSE [ok |-> FALSE, v |-> "",
              err |-> MissingFieldError(target_triple, name, var.err)]

Call(fn, a1, a2, a3, a4, a5) == [fn |-> fn, args |-> <<a1, a2, a3, a4, a5>>]

\* unversioned_llvm_target: the table's value, else the heuristic's.
unversioned_llvm_target_of(fallback_target, full_arch, vendor, os, env, abi) ==
    IF Len(fallback_target) = 1
    THEN [v |-> fallback_target[1].unversioned_llvm_target, calls |-> <<>>]
    ELSE [v |-> guess_llvm_target_triple(full_arch, vendor, os, env, abi),
          calls |-> <<Call("guess_llvm_target_triple", full_arch, vendor, os, env, abi)>>]

relocation_model_static_always_guessed(fallback_target, full_arch, arch, vendor, os, env) ==
    [v |-> guess_relocation_model_static(full_arch, arch, vendor, os, env),
     calls |-> <<Call("guess_relocation_model_static", full_arch, arch, vendor, os, env)>>]

\* relocation_model_static: the table's value, else the heuristic's.
relocation_model_static_of(fallback_target, full_arch, arch, vendor, os, env) ==
    IF Len(fallback_target) = 1
    THEN [v |-> fallback_target[1].relocation_model_static, calls |-> <<>>]
    ELSE [v |-> guess_relocation_model_static(full_arch, arch, vendor, os, env),
          calls |-> <<Call("guess_relocation_model_static", full_arch, arch, vendor, os, env)>>]

Failed(error) == [result |-> Err(error), calls |-> <<>>]

\* The fields after TARGET was read and split (lines 71-104); each `?` is an
\* early return.
resolve_fields(e, target_triple, full_arch) ==
    LET fallback_target == from_str(target_triple)
        ft(f) == IF Len(fallback_target) = 1 THEN <<fallback_target[1][f]>> ELSE <<>>
        arch == cargo_env(e, target_triple, "CARGO_CFG_TARGET_ARCH", ft("arch"))
        vendor == cargo_env(e, target_triple, "CARGO_CFG_TARGET_VENDOR", ft("vendor"))
        os == cargo_env(e, target_triple, "CARGO_CFG_TARGET_OS", ft("os"))
        env == cargo_env(e, target_triple, "CARGO_CFG_TARGET_ENV", ft("env"))
        abi_r == cargo_env(e, target_triple, "CARGO_CFG_TARGET_ABI", ft("abi"))
        abi == IF abi_r.ok THEN abi_r.v ELSE ""
        llvm == unversioned_llvm_target_of(fallback_target, full_arch,
                                           vendor.v, os.v, env.v, abi)
        reloc == relocation_model_static_of(fallback_target, full_arch,
                                            arch.v, vendor.v, os.v, env.v)
    IN  IF ~arch.ok THEN Failed(arch.err)
        ELSE IF ~vendor.ok THEN Failed(vendor.err)
        ELSE IF ~os.ok THEN Failed(os.err)
        ELSE IF ~env.ok THEN Failed(env.err)
        ELSE [result |-> Ok([full_arch |-> full_arch, arch |-> arch.v,
                             vendor |-> vendor.v, os |-> os.v, env |-> env.v,
                             abi |-> abi, unversioned_llvm_target |-> llvm.v,
                             relocation_model_static |-> reloc.v]),
              calls |-> llvm.calls \o reloc.calls]

\* The whole function: its Result and the heuristics it invoked.
from_cargo_environment_variables(e) ==
    LET target == env_var(e, "TARGET")
    IN  IF ~target.ok
        THEN Failed(Error("EnvVarNotFound", "failed reading TARGET: {err}",
                          <<>>, "", target.err))
        ELSE LET target_triple == target.v
                 parts == split_once(target_triple)
             IN  IF Len(parts) = 0
                 THEN Failed(Error("InvalidTarget",
                                   "target {target_triple} had an unknown architecture",
                                   target_triple, "", ""))
                 ELSE resolve_fields(e, target_triple, parts[1].before)

(***************************************************************************)
(* TargetInfoParser: OnceLock<Result<TargetInfoParserInner, Error>>        *)
(***************************************************************************)
\* The match on the cached Result: a TargetInfo that borrows the cached
\* fields, or a clone of the cached Error.
parse_result(r) ==
    IF r.ok
    THEN Ok([full_arch |-> r.val.full_arch, arch |-> r.val.arch,
             vendor |-> r.val.vendor, os |-> r.val.os, env |-> r.val.env,
             abi |-> r.val.abi,
             unversioned_llvm_target |-> r.val.unversioned_llvm_target,
             relocation_model_static |-> r.val.relocation_model_static])
    ELSE Err(r.err)

\* Whether resolving now would give something else than the cached outcome.
Differs(e, sl) == from_cargo_environment_variables(e).result # sl[1]

\* OnceLock::get_or_init, slot uninitialized: this thread runs the initializer.
Begin(t) ==
    /\ pc[t] = "idle"
    /\ once = "incomplete"
    /\ once' = "running"
    /\ pc' = [pc EXCEPT ![t] = "init"]
    /\ UNCHANGED <<environ, slot, ret, executions, calls, first, stale,
                   envWrites, gin, gout>>

\* OnceLock::get_or_init while another thread initializes: wait for it.
Block(t) ==
    /\ pc[t] = "idle"
    /\ once = "running"
    /\ pc' = [pc EXCEPT ![t] = "blocked"]
    /\ UNCHANGED <<environ, once, slot, ret, executions, calls, first, stale,
                   envWrites, gin, gout>>

\* OnceLock::get_or_init, slot initialized: the cached value.
Hit(t) ==
    /\ pc[t] = "idle"
    /\ once = "complete"
    /\ pc' = [pc EXCEPT ![t] = "got"]
    /\ UNCHANGED <<environ, once, slot, ret, executions, calls, first, stale,
                   envWrites, gin, gout>>

\* The initializer: from_cargo_environment_variables runs and its Result is
\* written to the slot.
Body(t) ==
    /\ pc[t] = "init"
    /\ LET r == from_cargo_environment_variables(environ)
       IN  /\ slot' = <<r.result>>
           /\ calls' = r.calls
    /\ executions' = executions + 1
    /\ pc' = [pc EXCEPT ![t] = "written"]
    /\ UNCHANGED <<environ, once, ret, first, stale, envWrites, gin, gout>>

\* The initialization completes: the slot is published.
Complete(t) ==
    /\ pc[t] = "written"
    /\ once' = "complete"
    /\ pc' = [pc EXCEPT ![t] = "got"]
    /\ UNCHANGED <<environ, slot, ret, executions, calls, first, stale,
                   envWrites, gin, gout>>

\* A waiting thread is released once the initialization is complete.
Wake(t) ==
    /\ pc[t] = "blocked"
    /\ once = "complete"
    /\ pc' = [pc EXCEPT ![t] = "got"]
    /\ UNCHANGED <<environ, once, slot, ret, executions, calls, first, stale,
                   envWrites, gin, gout>>

Returns(t, outcome) ==
    /\ ret' = [ret EXCEPT ![t] = <<outcome>>]
    /\ first' = IF Len(first) = 0 THEN <<outcome>> ELSE first
    /\ stale' = (stale \/ (Len(first) = 1 /\ Differs(environ, slot)))
    /\ pc' = [pc EXCEPT ![t] = "returned"]
    /\ UNCHANGED <<environ, once, slot, executions, calls, envWrites, gin, gout>>

ReturnRecomputed(t) ==
    /\ pc[t] = "got"
    /\ Returns(t, parse_result(from_cargo_environment_variables(environ).result))

ReturnRetriesFailure(t) ==
    /\ pc[t] = "got"
    /\ Returns(t, IF slot[1].ok
                  THEN parse_result(slot[1])
                  ELSE parse_result(from_cargo_environment_variables(environ).result))

\* parse_from_cargo_environment_variables returns what the slot holds.
Return(t) ==
    /\ pc[t] = "got"
    /\ Returns(t, parse_result(slot[1]))

\* The caller may call the parser again.
Again(t) ==
    /\ pc[t] = "returned"
    /\ pc' = [pc EXCEPT ![t] = "idle"]
    /\ UNCHANGED <<environ, once, slot, ret, executions, calls, first, stale,
                   envWrites, gin, gout>>

(***************************************************************************)
(* The environment of the model                                            *)
(***************************************************************************)
\* Values of each variable when the resolution alone is explored.
Values(name) ==
    CASE name = "TARGET" ->
           {Unset, NotUnicode, Set(target_empty), Set(target_unknownarch),
            Set(target_x86_64_unknown_linux_gnu), Set(target_x86_64_custom),
            Set(target_asmjs_custom), Set(target_mycpu_custom), Set(target_no_arch)}
      [] name = "CARGO_CFG_TARGET_ARCH" ->
           {Unset, NotUnicode, Set(""), Set("x86_64"), Set("bpf"), Set("hexagon")}
      [] name = "CARGO_CFG_TARGET_VENDOR" ->
           {Unset, NotUnicode, Set(""), Set("unknown"), Set("unikraft"), Set("fortanix")}
      [] name = "CARGO_CFG_TARGET_OS" ->
           {Unset, NotUnicode, Set(""), Set("linux"), Set("none"), Set("wasi")}
      [] name = "CARGO_CFG_TARGET_ENV" ->
           {Unset, NotUnicode, Set(""), Set("gnu"), Set("newlib"), Set("p2")}
      [] name = "CARGO_CFG_TARGET_ABI" ->
           {Unset, NotUnicode, Set(""), Set("eabi")}

\* Values of each variable when threads race and the environment changes.
FewValues(name) ==
    CASE name = "TARGET" ->
           {Unset, Set(target_unknownarch), Set(target_x86_64_unknown_linux_gnu),
            Set(target_mycpu_custom)}
      [] name = "CARGO_CFG_TARGET_ARCH" -> {Unset, Set("arm")}
      [] name = "CARGO_CFG_TARGET_VENDOR" -> {Unset, Set("unknown")}
      [] name = "CARGO_CFG_TARGET_OS" -> {Unset, Set("none")}
      [] name = "CARGO_CFG_TARGET_ENV" -> {Unset, Set("")}
      [] name = "CARGO_CFG_TARGET_ABI" -> {Unset, Set("eabi")}

Environments ==
    [TARGET : Values("TARGET"),
     CARGO_CFG_TARGET_ARCH : Values("CARGO_CFG_TARGET_ARCH"),
     CARGO_CFG_TARGET_VENDOR : Values("CARGO_CFG_TARGET_VENDOR"),
     CARGO_CFG_TARGET_OS : Values("CARGO_CFG_TARGET_OS"),
     CARGO_CFG_TARGET_ENV : Values("CARGO_CFG_TARGET_ENV"),
     CARGO_CFG_TARGET_ABI : Values("CARGO_CFG_TARGET_ABI")]

FewEnvironments ==
    [TARGET : FewValues("TARGET"),
     CARGO_CFG_TARGET_ARCH : FewValues("CARGO_CFG_TARGET_ARCH"),
     CARGO_CFG_TARGET_VENDOR : FewValues("CARGO_CFG_TARGET_VENDOR"),
     CARGO_CFG_TARGET_OS : FewValues("CARGO_CFG_TARGET_OS"),
     CARGO_CFG_TARGET_ENV : FewValues("CARGO_CFG_TARGET_ENV"),
     CARGO_CFG_TARGET_ABI : FewValues("CARGO_CFG_TARGET_ABI")]

\* The environment changes (another part of the process, or the user between
\* calls, sets or removes a variable).
SetEnv(name, value) ==
    /\ envWrites < MaxEnvWrites
    /\ environ[name] # value
    /\ environ' = [environ EXCEPT ![name] = value]
    /\ envWrites' = envWrites + 1
    /\ UNCHANGED <<once, slot, pc, ret, executions, calls, first, stale, gin, gout>>

(***************************************************************************)
(* A direct use of guess_relocation_model_static                           *)
(***************************************************************************)
GuessInputs ==
    {full_arch_x86_64, full_arch_asmjs, full_arch_mycpu, <<>>}
    \X {"bpf", "hexagon", "x86_64", "arm", ""}
    \X {"unikraft", "fortanix", "unknown", "pc", ""}
    \X {"none", "vita", "psp", "psx", "solid_asp3", "rtems", "nuttx", "xous",
        "l4re", "zkvm", "unknown", "wasi", "linux", ""}
    \X {"", "newlib", "p2", "gnu"}

Guess ==
    /\ Len(gout) = 0
    /\ gout' = <<guess_relocation_model_static(gin[1], gin[2], gin[3], gin[4], gin[5])>>
    /\ UNCHANGED <<environ, once, slot, pc, ret, executions, calls, first, stale,
                   envWrites, gin>>

(***************************************************************************)
(* Specifications                                                          *)
(***************************************************************************)
Fresh ==
    /\ once = "incomplete"
    /\ slot = <<>>
    /\ pc = [t \in Threads |-> "idle"]
    /\ ret = [t \in Threads |-> <<>>]
    /\ executions = 0
    /\ calls = <<>>
    /\ first = <<>>
    /\ stale = FALSE
    /\ envWrites = 0
    /\ gout = <<>>

\* Threads share one parser while the environment changes.
Init ==
    /\ environ \in FewEnvironments
    /\ gin = <<full_arch_mycpu, "", "", "", "">>
    /\ Fresh

Next ==
    \/ \E t \in Threads : Begin(t)
    \/ \E t \in Threads : Block(t)
    \/ \E t \in Threads : Hit(t)
    \/ \E t \in Threads : Body(t)
    \/ \E t \in Threads : Complete(t)
    \/ \E t \in Threads : Wake(t)
    \/ \E t \in Threads : Return(t)
    \/ \E t \in Threads : Again(t)
    \/ \E name \in VarNames : \E value \in FewValues(name) : SetEnv(name, value)

Spec == Init /\ [][Next]_vars

\* One call of the parser in each environment.
InitResolve ==
    /\ environ \in Environments
    /\ gin = <<full_arch_mycpu, "", "", "", "">>
    /\ Fresh

NextResolve ==
    \/ Begin(1)
    \/ Body(1)
    \/ Complete(1)
    \/ Return(1)

SpecResolve == InitResolve /\ [][NextResolve]_vars

\* The heuristic on each combination of its arguments.
InitGuess ==
    /\ environ = [n \in VarNames |-> Unset]
    /\ gin \in GuessInputs
    /\ Fresh

NextGuess == Guess

SpecGuess == InitGuess /\ [][NextGuess]_vars

(***************************************************************************)
(* Properties                                                              *)
(***************************************************************************)
Done == Len(slot) = 1
Succeeded == Done /\ slot[1].ok
ResolutionFailed == Done /\ ~slot[1].ok
Info == slot[1].val
Readable(name) == environ[name].st = "Ok"
Live(name) == environ[name].v[1]
HasSeparator(s) == \E i \in 1..Len(s) : s[i] = "-"
\* The longest prefix of s without a separator.
Prefix(s) ==
    LET k == CHOOSE n \in 0..Len(s) :
                 /\ \A j \in 1..n : s[j] # "-"
                 /\ (n < Len(s) => s[n + 1] = "-")
    IN  SubSeq(s, 1, k)
TargetSplits == Readable("TARGET") /\ HasSeparator(Live("TARGET"))
InTable == Readable("TARGET") /\ Len(from_str(Live("TARGET"))) = 1
TableInfo == from_str(Live("TARGET"))[1]

Fields == {"arch", "vendor", "os", "env", "abi"}
Signal(f) ==
    CASE f = "arch" -> "CARGO_CFG_TARGET_ARCH"
      [] f = "vendor" -> "CARGO_CFG_TARGET_VENDOR"
      [] f = "os" -> "CARGO_CFG_TARGET_OS"
      [] f = "env" -> "CARGO_CFG_TARGET_ENV"
      [] f = "abi" -> "CARGO_CFG_TARGET_ABI"

\* C1: however the threads' calls interleave, the body of
\* from_cargo_environment_variables runs exactly once, no caller holds a
\* result before that run has finished and been published, and every caller
\* returns the one outcome the run produced (the same TargetInfo field for
\* field, or the same error kind and message).
C1_SingleExecution ==
    /\ executions <= 1
    /\ (once = "complete") => (executions = 1 /\ Len(slot) = 1)
    /\ \A t \in Threads :
          (pc[t] \in {"got", "returned"} \/ Len(ret[t]) = 1) => once = "complete"
    /\ \A t \in Threads : Len(ret[t]) = 1 => ret[t][1] = slot[1]
    /\ \A t, u \in Threads : (Len(ret[t]) = 1 /\ Len(ret[u]) = 1) => ret[t] = ret[u]

\* Every thread has returned from a call, one of them after the environment
\* had changed so that a fresh resolution would have given something else.
C1_Witness ==
    /\ \A t \in Threads : pc[t] = "returned" /\ Len(ret[t]) = 1
    /\ executions = 1
    /\ stale

\* C2: once the first call has completed, every call returns what the first
\* one returned, success or failure, and the body is not run again, whatever
\* has been changed in the environment in between.
C2_Replay ==
    Len(first) = 1 =>
        /\ executions = 1
        /\ slot = first
        /\ \A t \in Threads : Len(ret[t]) = 1 => ret[t] = first

\* A later call replayed a stored failure although the environment had been
\* changed so that resolving again would succeed.
C2_Witness ==
    /\ stale
    /\ Len(first) = 1 /\ ~first[1].ok
    /\ from_cargo_environment_variables(environ).result.ok
    /\ \E t \in Threads : pc[t] = "returned" /\ ret[t] = first

\* C3 as stated: in a successful resolution each field whose live signal is
\* present (set at all) holds exactly the live value.
C3_PresentSignalWins ==
    Succeeded =>
        \A f \in Fields :
            environ[Signal(f)].st # "NotPresent" => environ[Signal(f)].v = <<Info[f]>>

\* C3 amended: in a successful resolution each field, independently, holds
\* the live value when its signal is set to valid Unicode; otherwise (signal
\* unset or not valid Unicode) it holds the table record's value when the
\* target is in the table, and only abi can then be left, empty, without one.
C3_ReadableSignalWins ==
    Succeeded =>
        \A f \in Fields :
            IF Readable(Signal(f)) THEN Info[f] = Live(Signal(f))
            ELSE IF InTable THEN Info[f] = TableInfo[f]
            ELSE f = "abi" /\ Info[f] = ""

\* A known target resolved with a live arch that differs from the table's
\* and no live os: arch is the live value, os the table's.
C3_Witness ==
    /\ Succeeded /\ InTable
    /\ environ["CARGO_CFG_TARGET_ARCH"] = Set("bpf")
    /\ TableInfo.arch # "bpf"
    /\ environ["CARGO_CFG_TARGET_OS"] = Unset
    /\ Info.arch = "bpf" /\ Info.os = TableInfo.os

\* C4: in every successfully resolved record full_arch, arch, vendor and os
\* are non-empty.
C4_NonEmptyFields ==
    Succeeded =>
        /\ Info.full_arch # <<>>
        /\ Info.arch # ""
        /\ Info.vendor # ""
        /\ Info.os # ""

\* C5 as stated: a target without table entry whose resolved os is "none" and
\* whose vendor is neither unikraft nor fortanix gets relocation_model_static
\* true, whatever full_arch, arch and env are.
C5_BareMetalStatic ==
    (Succeeded /\ ~InTable /\ Info.os = "none"
       /\ Info.vendor \notin {"unikraft", "fortanix"})
    => Info.relocation_model_static = TRUE

\* C5 amended: ... gets relocation_model_static true unless arch is bpf or
\* hexagon (rule 1) or full_arch is x86_64 with vendor unknown and empty env
\* (rule 4); in those two cases it is false.
C5_BareMetalStaticUnlessEarlierRule ==
    (Succeeded /\ ~InTable /\ Info.os = "none"
       /\ Info.vendor \notin {"unikraft", "fortanix"})
    => (Info.relocation_model_static =
          ~(\/ Info.arch \in {"bpf", "hexagon"}
            \/ (Info.full_arch = full_arch_x86_64 /\ Info.vendor = "unknown"
                  /\ Info.env = "")))

\* An unknown bare-metal target resolved to relocation_model_static = true.
C5_Witness ==
    /\ Succeeded /\ ~InTable
    /\ Info.os = "none" /\ Info.vendor = "unknown" /\ Info.arch = "x86_64"
    /\ Info.full_arch = full_arch_mycpu
    /\ Info.relocation_model_static = TRUE

\* C6 as stated: for a well-formed target without table entry and no live
\* vendor signal, resolution fails with EnvVarNotFound naming the vendor
\* signal, whatever the other signals are.
C6_MissingVendorNamed ==
    (Done /\ TargetSplits /\ ~InTable /\ environ["CARGO_CFG_TARGET_VENDOR"] = Unset)
    => /\ ~slot[1].ok
       /\ slot[1].err.kind = "EnvVarNotFound"
       /\ slot[1].err.name = "CARGO_CFG_TARGET_VENDOR"

\* C6 amended: ... resolution fails with EnvVarNotFound; the error names the
\* vendor signal when the arch signal can be read (set, valid Unicode) and
\* the arch signal, which is read first, when it cannot; it names the target.
C6_MissingVendorOrArchNamed ==
    (Done /\ TargetSplits /\ ~InTable /\ environ["CARGO_CFG_TARGET_VENDOR"] = Unset)
    => /\ ~slot[1].ok
       /\ slot[1].err.kind = "EnvVarNotFound"
       /\ slot[1].err.target = Live("TARGET")
       /\ slot[1].err.name = IF Readable("CARGO_CFG_TARGET_ARCH")
                             THEN "CARGO_CFG_TARGET_VENDOR"
                             ELSE "CARGO_CFG_TARGET_ARCH"

\* An unknown target with a live arch but neither vendor nor os: the error
\* names the vendor signal.
C6_Witness ==
    /\ ResolutionFailed /\ TargetSplits /\ ~InTable
    /\ environ["CARGO_CFG_TARGET_VENDOR"] = Unset
    /\ environ["CARGO_CFG_TARGET_OS"] = Unset
    /\ Readable("CARGO_CFG_TARGET_ARCH")
    /\ slot[1].err.name = "CARGO_CFG_TARGET_VENDOR"

InvalidTargetOf(target_triple) ==
    /\ ~slot[1].ok
    /\ slot[1].err.kind = "InvalidTarget"
    /\ slot[1].err.target = target_triple

FailedReadingTarget ==
    /\ ~slot[1].ok
    /\ slot[1].err.kind = "EnvVarNotFound"
    /\ slot[1].err.fmt = "failed reading TARGET: {err}"

\* C7 as stated: a TARGET without '-' fails with InvalidTarget naming it,
\* whatever the field signals are, and EnvVarNotFound is returned for TARGET
\* only when TARGET is absent.
C7_InvalidTarget ==
    Done =>
        /\ (Readable("TARGET") /\ ~HasSeparator(Live("TARGET")))
              => InvalidTargetOf(Live("TARGET"))
        /\ FailedReadingTarget => environ["TARGET"] = Unset

\* C7 amended: a TARGET that is valid Unicode and has no '-' fails with
\* InvalidTarget naming it, whatever the field signals are; EnvVarNotFound is
\* returned for TARGET exactly when TARGET is absent or not valid Unicode.
C7_InvalidTargetOrUnreadable ==
    Done =>
        /\ (Readable("TARGET") /\ ~HasSeparator(Live("TARGET")))
              => InvalidTargetOf(Live("TARGET"))
        /\ FailedReadingTarget <=> ~Readable("TARGET")

\* TARGET=unknownarch with no vendor signal: InvalidTarget, not EnvVarNotFound.
C7_Witness ==
    /\ Done
    /\ environ["TARGET"] = Set(target_unknownarch)
    /\ environ["CARGO_CFG_TARGET_VENDOR"] = Unset
    /\ InvalidTargetOf(target_unknownarch)

\* C9: in a successful resolution unversioned_llvm_target and
\* relocation_model_static are the table record's whenever the target is in
\* the table, even if live signals override its other fields, and then no
\* heuristic is invoked; otherwise both heuristics are invoked, once each, on
\* full_arch from TARGET's prefix and the resolved fields, and give the two.
C9_DerivedFields ==
    Succeeded =>
        IF InTable
        THEN /\ Info.unversioned_llvm_target = TableInfo.unversioned_llvm_target
             /\ Info.relocation_model_static = TableInfo.relocation_model_static
             /\ calls = <<>>
        ELSE LET full_arch == Prefix(Live("TARGET"))
             IN  /\ Info.full_arch = full_arch
                 /\ calls = <<Call("guess_llvm_target_triple", full_arch,
                                   Info.vendor, Info.os, Info.env, Info.abi),
                              Call("guess_relocation_model_static", full_arch,
                                   Info.arch, Info.vendor, Info.os, Info.env)>>
                 /\ Info.unversioned_llvm_target =
                        guess_llvm_target_triple(full_arch, Info.vendor, Info.os,
                                                 Info.env, Info.abi)
                 /\ Info.relocation_model_static =
                        guess_relocation_model_static(full_arch, Info.arch,
                                                      Info.vendor, Info.os, Info.env)

\* A known target whose live os is "none": the heuristic would say true on
\* the resolved fields, the record keeps the table's false.
C9_Witness ==
    /\ Succeeded /\ InTable
    /\ environ["CARGO_CFG_TARGET_OS"] = Set("none")
    /\ Info.os = "none"
    /\ guess_relocation_model_static(Info.full_arch, Info.arch, Info.vendor,
                                     Info.os, Info.env) = TRUE
    /\ Info.relocation_model_static = FALSE

\* The ordered rule table of the relocation-model heuristic.
Rules(full_arch, arch, vendor, os, env) ==
    << [applies |-> arch \in {"bpf", "hexagon"}, result |-> FALSE],
       [applies |-> vendor = "unikraft", result |-> TRUE],
       [applies |-> vendor = "fortanix", result |-> FALSE],
       [applies |-> full_arch = full_arch_x86_64 /\ vendor = "unknown"
                      /\ os = "none" /\ env = "", result |-> FALSE],
       [applies |-> os \in {"none", "vita", "psp", "psx", "solid_asp3", "rtems",
                            "nuttx", "xous", "l4re", "zkvm"}, result |-> TRUE],
       [applies |-> env = "newlib", result |-> TRUE],
       [applies |-> full_arch = full_arch_asmjs \/ os \in {"unknown", "wasi"},
        result |-> env # "p2"] >>

FirstMatch(rules) ==
    IF \E i \in 1..Len(rules) : rules[i].applies
    THEN rules[CHOOSE i \in 1..Len(rules) :
                   rules[i].applies /\ \A j \in 1..(i - 1) : ~rules[j].applies].result
    ELSE FALSE

\* C10: guess_relocation_model_static returns the result of the first rule of
\* the ordered table that matches its arguments, and false when none does.
C10_FirstRuleWins ==
    Len(gout) = 1 => gout[1] = FirstMatch(Rules(gin[1], gin[2], gin[3], gin[4], gin[5]))

\* arch bpf with vendor unikraft: rule 1 overrides rule 2.
C10_Witness ==
    /\ Len(gout) = 1
    /\ gin[2] = "bpf" /\ gin[3] = "unikraft"
    /\ gout[1] = FALSE

====
